---- MODULE Spec2Model ----
(***************************************************************************)
(* The upload / streaming / quiz state machine of                          *)
(* src/app/(preview)/page.tsx: FileDropZone, LoadingProgress and the       *)
(* ChatWithFiles component with its experimental_useObject callbacks.      *)
(***************************************************************************)
EXTENDS Integers, Sequences, FiniteSets, TLC

\* ---------------------------------------------------------------- bounds
\* Largest number of candidates in one picker selection or drop.
MaxSelection == 2
\* Largest number of submissions in flight together (encoding, streaming or
\* awaiting the title) in the scenario that explores concurrent submissions.
MaxInFlight == 2
\* Largest number of slots of one partial object that are not fully populated
\* in the scenario that explores malformed streams.
MaxDefects == 1

\* ------------------------------------------------------------- constants
\* file.size <= 5 * 1024 * 1024 (page.tsx:44)
MaxFileSize == 5242880
\* (partialQuestions.length / 4) * 100 and questions.length === 4
TargetCount == 4

PdfType == "application/pdf"

\* The three toast.error messages of the component, and "no toast".
NoToast == "none"
SafariToast == "Safari does not support drag & drop. Please use the file picker."
InvalidFileToast == "Only PDF files under 5MB are allowed."
GenerateFailedToast == "Failed to generate quiz. Please try again."

\* useState<string>() starts undefined; the quiz view shows title ?? "Quiz".
NoTitle == "<undefined>"
DefaultTitle == "Quiz"

VARIABLES
  files,             \* useState<File[]>([])
  questions,         \* useState<questionsSchema>([])
  isDragging,        \* useState(false)
  title,             \* useState<string>()
  partialQuestions,  \* experimental_useObject().object
  isLoading,         \* experimental_useObject().isLoading
  isSafari,          \* the user-agent test of handleFileChange
  toast,             \* the toast.error raised by the last handler
  encodings,         \* handleSubmitWithFiles calls awaiting Promise.all
  streams,           \* submit() calls whose response stream is open
  titleRequests,     \* handleSubmitWithFiles calls awaiting generateQuizTitle
  quizFile,          \* first file name of the submission the quiz view is of
  last,              \* the last handler that ran, with its input
  scenario           \* which part of the environment is explored in full

vars == <<files, questions, isDragging, title, partialQuestions, isLoading,
          isSafari, toast, encodings, streams, titleRequests, quizFile, last,
          scenario>>

\* ------------------------------------------------------------ scenarios
\* The environment is explored in three scenarios, each with one part in
\* full and the others in their plain form:
\*   "intake":     every selection and both browser families;
\*   "stream":     response streams with empty, partial and falsy slots;
\*   "concurrent": up to MaxInFlight submissions in flight together.
Scenarios == { "intake", "stream", "concurrent" }

\* ------------------------------------------------------------ the files
\* The File objects a user can pick or drop: name, type, size.
Candidates ==
  { [name |-> "a.pdf", type |-> PdfType, size |-> 1000],
    [name |-> "b.pdf", type |-> PdfType, size |-> MaxFileSize],
    [name |-> "c.pdf", type |-> PdfType, size |-> MaxFileSize + 1],
    [name |-> "d.png", type |-> "image/png", size |-> 1000] }

Range(s) == { s[i] : i \in DOMAIN s }

\* The lists of at most n distinct members of S (a FileList names a file once).
RECURSIVE ListsUpTo(_, _)
ListsUpTo(S, n) ==
  IF n = 0 THEN { <<>> }
  ELSE LET shorter == ListsUpTo(S, n - 1)
       IN  shorter \cup
           UNION { { Append(s, x) : x \in S \ Range(s) } : s \in shorter }

\* The size test with < for <=.
IsValidFile_strict(file) == file.type = PdfType /\ file.size < MaxFileSize

\* The predicate of selectedFiles.filter(...)
IsValidFile(file) == file.type = PdfType /\ file.size <= MaxFileSize

\* e.target.files / e.dataTransfer.files
Selections ==
  IF scenario = "intake" THEN ListsUpTo(Candidates, MaxSelection)
  ELSE { <<>>, <<CHOOSE file \in Candidates : file.name = "a.pdf">> }

\* reader.readAsDataURL(file): "data:<type>;base64,<the bytes of the file>",
\* the bytes of a file standing as its name.
encodeFileAsBase64(file) == "data:" \o file.type \o ";base64," \o file.name

EncodedFile(file) ==
  [name |-> file.name, type |-> file.type, data |-> encodeFileAsBase64(file)]

EncodeAll(fs) == [i \in 1..Len(fs) |-> EncodedFile(fs[i])]

\* generateQuizTitle(name): the title endpoint's answer for a file name.
generateQuizTitle(name) == "Quiz on " \o name

Max(a, b) == IF a >= b THEN a ELSE b

RemoveAt(s, i) == [j \in 1..(Len(s) - 1) |-> IF j < i THEN s[j] ELSE s[j + 1]]

\* ----------------------------------------------------------- the drafts
\* An optional array (object, partialQuestions): undefined, or an array.
undefined == [defined |-> FALSE, items |-> <<>>]
Defined(items) == [defined |-> TRUE, items |-> items]

QuestionText == <<"q1", "q2", "q3", "q4">>
AnswerKey == <<"A", "B", "C", "D">>
OptionList == <<"w", "x", "y", "z">>

\* The slot of index i of a streamed array: an index not populated yet, a
\* draft with only its question, a draft whose question is the empty
\* string, and the fully populated draft.
emptySlot == [hole |-> TRUE]
PartDraft(i) == [question |-> QuestionText[i]]
BlankDraft(i) == [question |-> "", options |-> OptionList, answer |-> AnswerKey[i]]
FullDraft(i) ==
  [question |-> QuestionText[i], options |-> OptionList, answer |-> AnswerKey[i]]

\* JavaScript truthiness of a slot (an object is truthy, undefined is not),
\* of a string field (present and not ""), and of an array field (present).
Boolean(slot) == "hole" \notin DOMAIN slot
TruthyString(q, field) == field \in DOMAIN q /\ q[field] # ""
TruthyArray(q, field) == field \in DOMAIN q

\* The filter with the answer test negated.
IsValidQuestion_negated(q) ==
  /\ Boolean(q)
  /\ TruthyString(q, "question")
  /\ TruthyArray(q, "options")
  /\ ~TruthyString(q, "answer")

\* The predicate of object?.filter(...) in onFinish.
IsValidQuestion(q) ==
  /\ Boolean(q)
  /\ TruthyString(q, "question")
  /\ TruthyArray(q, "options")
  /\ TruthyString(q, "answer")

\* The element schema: a string question, four options, an answer letter.
IsSchemaQuestion(q) ==
  /\ Boolean(q)
  /\ "question" \in DOMAIN q
  /\ "options" \in DOMAIN q /\ Len(q.options) = 4
  /\ "answer" \in DOMAIN q /\ q.answer \in Range(AnswerKey)

\* questionsSchema, as the hook applies it to the final object: the type of
\* the questions state, an array of exactly four schema questions.
questionsSchema(object) ==
  /\ object.defined
  /\ Len(object.items) = TargetCount
  /\ \A i \in DOMAIN object.items : IsSchemaQuestion(object.items[i])

\* A slot whose element the server has sent whole.
IsComplete(slot) == IsSchemaQuestion(slot)

Defects(items) ==
  Cardinality({ i \in DOMAIN items : items[i] # FullDraft(i) })

\* The slots the stream can deliver at index i.
SlotsAt(i) ==
  IF scenario = "stream"
  THEN { emptySlot, PartDraft(i), BlankDraft(i), FullDraft(i) }
  ELSE { FullDraft(i) }

\* The arrays that can follow `items` as the next partial object: one more
\* slot once every slot is complete, or the last slot further populated.
Grow(items) ==
  IF Len(items) < TargetCount /\ \A i \in DOMAIN items : IsComplete(items[i])
  THEN { Append(items, d) : d \in SlotsAt(Len(items) + 1) }
  ELSE {}

Refine(items) ==
  LET n == Len(items) IN
  IF n = 0 \/ IsComplete(items[n]) THEN {}
  ELSE { [items EXCEPT ![n] = d] :
           d \in IF items[n] = emptySlot
                 THEN SlotsAt(n) \ { emptySlot }
                 ELSE SlotsAt(n) \ { emptySlot, PartDraft(n) } }

NextObjects(latest) ==
  LET next == IF latest.defined
              THEN Grow(latest.items) \cup Refine(latest.items)
              ELSE { <<>> } \cup Grow(<<>>)
  IN  { Defined(a) : a \in { b \in next : Defects(b) <= MaxDefects } }

\* ------------------------------------------------- the progress projector
\* The percentage counted over the truthy slots only.
progress_truthy(partial) ==
  IF partial.defined
  THEN (Len(SelectSeq(partial.items, Boolean)) * 100) \div TargetCount
  ELSE 0

\* const progress = partialQuestions ? (partialQuestions.length / 4) * 100 : 0
\* (length / 4 is exact in binary floating point, so is the product).
progress(partial) ==
  IF partial.defined THEN (Len(partial.items) * 100) \div TargetCount ELSE 0

\* validQuestions without its filter.
validQuestions_unfiltered(partial) == partial

\* const validQuestions = partialQuestions?.filter(Boolean)
validQuestions(partial) ==
  IF partial.defined THEN Defined(SelectSeq(partial.items, Boolean)) ELSE undefined

\* The status line of LoadingProgress (an array, even empty, is truthy).
label(partial) ==
  IF validQuestions(partial).defined
  THEN "Generating question "
         \o ToString(Len(validQuestions(partial).items) + 1) \o " of 4"
  ELSE "Analyzing PDF content"

\* ------------------------------------------------------------- the views
\* The view switched by the stream's object as well as by questions.
QuizView_partial ==
  \/ Len(questions) = TargetCount
  \/ partialQuestions.defined /\ Len(partialQuestions.items) = TargetCount

\* if (questions.length === 4) return <Quiz .../>
QuizView == Len(questions) = TargetCount
UploadView == ~QuizView
\* <Quiz title={title ?? "Quiz"} .../>
shownTitle == IF title = NoTitle THEN DefaultTitle ELSE title
\* LoadingProgress renders isLoading && (...)
ProgressVisible == UploadView /\ isLoading

\* ------------------------------------------------------------ file intake
Event(op, arg) == [op |-> op, arg |-> arg]

\* handleFileChange without its Safari guard.
handleFileChange_unguarded(selectedFiles, dragging) ==
  LET validFiles == SelectSeq(selectedFiles, IsValidFile) IN
  /\ toast' = IF Len(validFiles) # Len(selectedFiles)
              THEN InvalidFileToast ELSE NoToast
  /\ files' = validFiles

\* FileDropZone.handleFileChange, with the isDragging of its render.
handleFileChange(selectedFiles, dragging) ==
  IF isSafari /\ dragging
  THEN /\ toast' = SafariToast
       /\ UNCHANGED files
  ELSE LET validFiles == SelectSeq(selectedFiles, IsValidFile) IN
       /\ toast' = IF Len(validFiles) # Len(selectedFiles)
                   THEN InvalidFileToast ELSE NoToast
       /\ files' = validFiles

\* <input type="file" onChange={handleFileChange}>
onChange(selectedFiles) ==
  /\ UploadView
  /\ handleFileChange(selectedFiles, isDragging)
  /\ last' = Event("onChange", [selection |-> selectedFiles,
                                dragging |-> isDragging])
  /\ UNCHANGED <<questions, isDragging, title, partialQuestions, isLoading,
                 isSafari, encodings, streams, titleRequests, quizFile, scenario>>

onDragOver ==
  /\ UploadView
  /\ scenario = "intake"
  /\ isDragging' = TRUE
  /\ toast' = NoToast
  /\ last' = Event("onDragOver", <<>>)
  /\ UNCHANGED <<files, questions, title, partialQuestions, isLoading, isSafari,
                 encodings, streams, titleRequests, quizFile, scenario>>

onDragLeave ==
  /\ UploadView
  /\ scenario = "intake"
  /\ isDragging' = FALSE
  /\ toast' = NoToast
  /\ last' = Event("onDragLeave", <<>>)
  /\ UNCHANGED <<files, questions, title, partialQuestions, isLoading, isSafari,
                 encodings, streams, titleRequests, quizFile, scenario>>

\* setIsDragging(false), then handleFileChange of the same render.
onDrop(selectedFiles) ==
  /\ UploadView
  /\ scenario = "intake"
  /\ isDragging' = FALSE
  /\ handleFileChange(selectedFiles, isDragging)
  /\ last' = Event("onDrop", [selection |-> selectedFiles,
                              dragging |-> isDragging])
  /\ UNCHANGED <<questions, title, partialQuestions, isLoading, isSafari,
                 encodings, streams, titleRequests, quizFile, scenario>>

\* ------------------------------------------------------------- submission
\* The button never disabled.
SubmitEnabled_always == TRUE

\* <Button type="submit" disabled={files.length === 0}>
SubmitEnabled == Len(files) # 0

InFlight == Len(encodings) + Max(Len(streams), Len(titleRequests))
InFlightLimit == IF scenario = "concurrent" THEN MaxInFlight ELSE 1

\* handleSubmitWithFiles up to its await of Promise.all: one read per file.
handleSubmitWithFiles ==
  /\ UploadView
  /\ SubmitEnabled
  /\ InFlight < InFlightLimit
  /\ encodings' = Append(encodings, [files |-> files, read |-> 0])
  /\ toast' = NoToast
  /\ last' = Event("handleSubmitWithFiles", files)
  /\ UNCHANGED <<files, questions, isDragging, title, partialQuestions, isLoading,
                 isSafari, streams, titleRequests, quizFile, scenario>>

\* reader.onload of one file of a submission.
readerOnload(e) ==
  /\ encodings[e].read < Len(encodings[e].files)
  /\ encodings' = [encodings EXCEPT ![e].read = @ + 1]
  /\ toast' = NoToast
  /\ last' = Event("reader.onload", encodings[e])
  /\ UNCHANGED <<files, questions, isDragging, title, partialQuestions, isLoading,
                 isSafari, streams, titleRequests, quizFile, scenario>>

\* reader.onerror: Promise.all rejects and the handler ends there.
readerOnerror(e) ==
  /\ encodings[e].read < Len(encodings[e].files)
  /\ encodings' = RemoveAt(encodings, e)
  /\ toast' = NoToast
  /\ last' = Event("reader.onerror", encodings[e])
  /\ UNCHANGED <<files, questions, isDragging, title, partialQuestions, isLoading,
                 isSafari, streams, titleRequests, quizFile, scenario>>

\* Promise.race for Promise.all: the first read resolves it.
AllEncoded_first(encoding) == encoding.read >= 1

\* Promise.all resolves once every file is read.
AllEncoded(encoding) == encoding.read = Len(encoding.files)

\* handleSubmitWithFiles after the await: submit({ files: encodedFiles })
\* resets the hook's object and sets isLoading; generateQuizTitle is called
\* with encodedFiles[0].name (a TypeError when there is no first file).
submit(e) ==
  LET encodedFiles == EncodeAll(encodings[e].files)
      firstName == IF Len(encodedFiles) > 0 THEN encodedFiles[1].name ELSE ""
  IN  /\ AllEncoded(encodings[e])
      /\ encodings' = RemoveAt(encodings, e)
      /\ partialQuestions' = undefined
      /\ isLoading' = TRUE
      /\ streams' = Append(streams, [latest |-> undefined, name |-> firstName])
      /\ titleRequests' = IF Len(encodedFiles) > 0
                          THEN Append(titleRequests, firstName)
                          ELSE titleRequests
      /\ toast' = NoToast
      /\ last' = Event("submit", [files |-> encodings[e].files,
                                  read |-> encodings[e].read,
                                  payload |-> encodedFiles])
      /\ UNCHANGED <<files, questions, isDragging, title, isSafari, quizFile,
                     scenario>>

\* ------------------------------------------------------------- the stream
\* A partial object of stream s: the hook stores it as its object.
onPartial(s) ==
  \E object \in NextObjects(streams[s].latest) :
    /\ streams' = [streams EXCEPT ![s].latest = object]
    /\ partialQuestions' = object
    /\ toast' = NoToast
    /\ last' = Event("onPartial", [before |-> streams[s].latest,
                                   object |-> object])
    /\ UNCHANGED <<files, questions, isDragging, title, isLoading, isSafari,
                   encodings, titleRequests, quizFile, scenario>>

\* The object the hook hands to onFinish: the last partial object when it
\* passes questionsSchema, undefined when it does not.
FinalObject(latest) == IF questionsSchema(latest) THEN latest ELSE undefined

\* onFinish without its filter.
validatedQuestions_unfiltered(object) ==
  IF object.defined THEN object.items ELSE <<>>

\* const validatedQuestions = object?.filter(...); validatedQuestions ?? []
validatedQuestions(object) ==
  IF object.defined THEN SelectSeq(object.items, IsValidQuestion) ELSE <<>>

\* The stream of s closes: isLoading is reset and onFinish runs.
onFinish(s) ==
  LET object == FinalObject(streams[s].latest) IN
    /\ isLoading' = FALSE
    /\ questions' = validatedQuestions(object)
    /\ streams' = RemoveAt(streams, s)
    /\ toast' = NoToast
    /\ last' = Event("onFinish", [latest |-> streams[s].latest,
                                  object |-> object])
    /\ UNCHANGED <<files, isDragging, title, partialQuestions, isSafari,
                   encodings, titleRequests, scenario>>
    /\ quizFile' = IF QuizView' THEN streams[s].name ELSE ""

\* The request or the stream of s fails: onError runs, isLoading is reset.
onError(s) ==
  /\ toast' = GenerateFailedToast
  /\ files' = <<>>
  /\ isLoading' = FALSE
  /\ streams' = RemoveAt(streams, s)
  /\ last' = Event("onError", streams[s].latest)
  /\ UNCHANGED <<questions, isDragging, title, partialQuestions, isSafari,
                 encodings, titleRequests, quizFile, scenario>>

\* ------------------------------------------------------------- the title
\* generateQuizTitle resolves: setTitle(generatedTitle).
titleResolved(t) ==
  /\ title' = generateQuizTitle(titleRequests[t])
  /\ titleRequests' = RemoveAt(titleRequests, t)
  /\ toast' = NoToast
  /\ last' = Event("setTitle", titleRequests[t])
  /\ UNCHANGED <<files, questions, isDragging, partialQuestions, isLoading,
                 isSafari, encodings, streams, quizFile, scenario>>

\* generateQuizTitle rejects: the handler ends without setTitle.
titleRejected(t) ==
  /\ titleRequests' = RemoveAt(titleRequests, t)
  /\ toast' = NoToast
  /\ last' = Event("titleRejected", titleRequests[t])
  /\ UNCHANGED <<files, questions, isDragging, title, partialQuestions,
                 isLoading, isSafari, encodings, streams, quizFile, scenario>>

\* ------------------------------------------------------------- the clear
\* clearPDF, the control of the quiz view.
clearPDF ==
  /\ QuizView
  /\ files' = <<>>
  /\ questions' = <<>>
  /\ quizFile' = ""
  /\ toast' = NoToast
  /\ last' = Event("clearPDF", <<>>)
  /\ UNCHANGED <<isDragging, title, partialQuestions, isLoading, isSafari,
                 encodings, streams, titleRequests, scenario>>

\* ------------------------------------------------------ the specification
Init ==
  /\ scenario \in Scenarios
  /\ isSafari \in IF scenario = "intake" THEN BOOLEAN ELSE { FALSE }
  /\ files = <<>>
  /\ questions = <<>>
  /\ isDragging = FALSE
  /\ title = NoTitle
  /\ partialQuestions = undefined
  /\ isLoading = FALSE
  /\ toast = NoToast
  /\ encodings = <<>>
  /\ streams = <<>>
  /\ titleRequests = <<>>
  /\ quizFile = ""
  /\ last = Event("mount", <<>>)

Next ==
  \/ \E selectedFiles \in Selections : onChange(selectedFiles)
  \/ onDragOver
  \/ onDragLeave
  \/ \E selectedFiles \in Selections : onDrop(selectedFiles)
  \/ handleSubmitWithFiles
  \/ \E e \in DOMAIN encodings : readerOnload(e)
  \/ \E e \in DOMAIN encodings : readerOnerror(e)
  \/ \E e \in DOMAIN encodings : submit(e)
  \/ \E s \in DOMAIN streams : onPartial(s)
  \/ \E s \in DOMAIN streams : onFinish(s)
  \/ \E s \in DOMAIN streams : onError(s)
  \/ \E t \in DOMAIN titleRequests : titleResolved(t)
  \/ \E t \in DOMAIN titleRequests : titleRejected(t)
  \/ clearPDF

Spec == Init /\ [][Next]_vars

\* ================================================================ claims
FileEvents == { "onChange", "onDrop" }

\* A candidate the File Acceptor must keep: a PDF of at most 5 MiB.
Acceptable(file) == file.type = "application/pdf" /\ file.size <= 5242880

\* The last handler was a selection or drop that the Safari guard let through.
Processed ==
  /\ last.op \in FileEvents
  /\ ~(isSafari /\ last.arg.dragging)

\* C1: after a selection or drop that the File Acceptor processes, the staged
\* files are exactly the acceptable members of the selection, in selection
\* order; every staged file is a PDF of at most 5,242,880 bytes in every
\* state; and the warning is raised exactly when a member was rejected, the
\* acceptable ones being staged all the same.
C1_AcceptorStagesValidFiles ==
  /\ \A i \in DOMAIN files : Acceptable(files[i])
  /\ Processed =>
       /\ files = SelectSeq(last.arg.selection, Acceptable)
       /\ (\E i \in DOMAIN last.arg.selection :
             ~Acceptable(last.arg.selection[i])) <=> toast = InvalidFileToast

C1_Witness ==
  /\ Processed
  /\ \E i \in DOMAIN last.arg.selection : ~Acceptable(last.arg.selection[i])
  /\ \E i \in DOMAIN last.arg.selection :
       last.arg.selection[i].size = 5242880
  /\ Len(files) = 1
  /\ toast = InvalidFileToast

\* C2: in every state the validated question set held by the controller has
\* length 0 or exactly 4.
C2_LengthZeroOrFour == Len(questions) \in { 0, 4 }

\* C3: once onError has run, the staged files are empty, the validated
\* question set is empty, the error notification is raised and the quiz view
\* is not rendered.
C3_ErrorResetsSession ==
  last.op = "onError" =>
    /\ files = <<>>
    /\ questions = <<>>
    /\ toast = GenerateFailedToast
    /\ ~QuizView

\* A draft with its question, its options and its answer populated.
FullyPopulated(q) ==
  /\ DOMAIN q = { "question", "options", "answer" }
  /\ q.question # "" /\ q.answer # "" /\ Len(q.options) = 4

FourFullDrafts(object) ==
  /\ object.defined
  /\ Len(object.items) = 4
  /\ \A i \in DOMAIN object.items : FullyPopulated(object.items[i])

\* C4: when a stream that has emitted exactly 4 fully populated drafts
\* finishes, the validated question set is those 4 drafts in the order
\* received and the quiz view is rendered.
C4_FourDraftsComplete ==
  (last.op = "onFinish" /\ FourFullDrafts(last.arg.latest)) =>
    /\ questions = last.arg.latest.items
    /\ QuizView

C4_Witness ==
  /\ last.op = "onFinish"
  /\ FourFullDrafts(last.arg.latest)
  /\ questions[1] # questions[4]
  /\ QuizView

\* C5: whenever the quiz view is displayed for a submission, the title shown
\* is the one the title endpoint returns for the name of the first file of
\* that submission.
C5_TitleOfShownQuiz == QuizView => shownTitle = generateQuizTitle(quizFile)

\* C6: from one partial emission of a stream to its next the progress
\* percentage never decreases, the hook's object being the emitted one; and
\* with n drafts received, 0 <= n <= 4, the percentage is exactly 25 * n, so
\* within 0..100.
C6_ProgressMonotone ==
  /\ last.op = "onPartial" =>
       /\ partialQuestions = last.arg.object
       /\ progress(last.arg.object) >= progress(last.arg.before)
  /\ \A n \in 0..4 :
       (partialQuestions.defined /\ Len(partialQuestions.items) = n) =>
         /\ progress(partialQuestions) = 25 * n
         /\ progress(partialQuestions) \in 0..100

C6_Witness ==
  /\ last.op = "onPartial"
  /\ last.arg.before.defined
  /\ Len(last.arg.before.items) = 2
  /\ Len(partialQuestions.items) = 3
  /\ \E i \in DOMAIN partialQuestions.items : ~Boolean(partialQuestions.items[i])
  /\ progress(partialQuestions) = 75

\* The number of slots of an array that are fully populated drafts.
FullCount(items) ==
  Cardinality({ i \in DOMAIN items : Boolean(items[i]) /\ FullyPopulated(items[i]) })

\* Every slot is a fully populated draft or a falsy slot.
FullOrFalsy(items) ==
  \A i \in DOMAIN items : ~Boolean(items[i]) \/ FullyPopulated(items[i])

\* C7: the projection of an undefined partial is 0 and "Analyzing PDF
\* content"; of a partial of n >= 1 fully populated drafts and any falsy
\* slots it is 25 times the number of slots, and the label "Generating
\* question n+1 of 4", the falsy slots not counted in n; of one populated
\* draft it is 25 and "Generating question 2 of 4".
C7_Projection ==
  /\ ~partialQuestions.defined =>
       /\ progress(partialQuestions) = 0
       /\ label(partialQuestions) = "Analyzing PDF content"
  /\ ( /\ partialQuestions.defined
       /\ FullOrFalsy(partialQuestions.items)
       /\ FullCount(partialQuestions.items) >= 1 ) =>
       /\ progress(partialQuestions) = 25 * Len(partialQuestions.items)
       /\ label(partialQuestions) =
            "Generating question "
              \o ToString(FullCount(partialQuestions.items) + 1) \o " of 4"
  /\ partialQuestions = Defined(<<FullDraft(1)>>) =>
       /\ progress(partialQuestions) = 25
       /\ label(partialQuestions) = "Generating question 2 of 4"

C7_Witness ==
  /\ partialQuestions.defined
  /\ FullOrFalsy(partialQuestions.items)
  /\ FullCount(partialQuestions.items) = 2
  /\ Len(partialQuestions.items) = 3
  /\ label(partialQuestions) = "Generating question 3 of 4"

\* C8: a submission is never started with no file staged: the submit
\* handler is enabled only with a staged file, every encoding in progress has
\* a file, every payload sent to the generator holds an encoded file, and
\* every stream and title request has a first file name.
C8_NoEmptySubmission ==
  /\ (ENABLED handleSubmitWithFiles) => Len(files) >= 1
  /\ last.op = "handleSubmitWithFiles" => Len(last.arg) >= 1
  /\ \A e \in DOMAIN encodings : Len(encodings[e].files) >= 1
  /\ last.op = "submit" => Len(last.arg.payload) >= 1
  /\ \A s \in DOMAIN streams : streams[s].name # ""
  /\ \A t \in DOMAIN titleRequests : titleRequests[t] # ""

C8_Witness ==
  /\ last.op = "submit"
  /\ Len(last.arg.payload) = 2
  /\ streams # <<>>
  /\ titleRequests # <<>>

\* C9: the generator request and the title request are issued only once
\* every staged file of the submission is read, the payload holding one
\* encoded file per staged file; a failed read ends the submission with no
\* request issued and no payload sent, and leaves the staged files, the
\* validated question set, the title and the hook as they were.
C9_EncodeBeforeRequests ==
  [][ /\ last'.op = "submit" =>
           /\ last'.arg.read = Len(last'.arg.files)
           /\ Len(last'.arg.payload) = Len(last'.arg.files)
           /\ \A i \in DOMAIN last'.arg.files :
                /\ last'.arg.payload[i].name = last'.arg.files[i].name
                /\ last'.arg.payload[i].type = last'.arg.files[i].type
           /\ Len(streams') = Len(streams) + 1
           /\ Len(titleRequests') = Len(titleRequests) + 1
      /\ last'.op # "submit" =>
           /\ Len(streams') <= Len(streams)
           /\ Len(titleRequests') <= Len(titleRequests)
      /\ last'.op = "reader.onerror" =>
           /\ Len(encodings') = Len(encodings) - 1
           /\ UNCHANGED <<files, questions, title, streams, titleRequests,
                          partialQuestions, isLoading>>
    ]_vars

C9_Witness ==
  /\ last.op = "reader.onerror"
  /\ last.arg.read = 1
  /\ Len(last.arg.files) = 2
  /\ files = last.arg.files
  /\ streams = <<>>
  /\ titleRequests = <<>>

\* C10: once the quiz view is displayed only clearPDF makes the session
\* leave it, and clearPDF empties the validated question set and the staged
\* files.
C10_OnlyClearLeavesComplete ==
  [][ (QuizView /\ ~QuizView') =>
        /\ last'.op = "clearPDF"
        /\ questions' = <<>>
        /\ files' = <<>>
    ]_vars

\* C11: at most one submission is active at a time: encoding or streaming.
C11_OneActiveSubmission == Len(encodings) + Len(streams) <= 1

StreamEnds == { "onFinish", "onError" }

\* C12: a finish or error event of a stream that was open when the user
\* cleared the session changes neither the validated question set, nor the
\* staged files, nor the view.
C12_LateEventIsNoOp ==
  [][ (last.op = "clearPDF" /\ last'.op \in StreamEnds) =>
        /\ UNCHANGED <<questions, files>>
        /\ QuizView' = QuizView
    ]_vars

\* The two outcomes of a submission whose stream has ended.
Complete == QuizView /\ Len(questions) = 4
Errored == toast = GenerateFailedToast /\ files = <<>> /\ ~QuizView

\* C13: once the stream of a submission has ended, with a finish or with an
\* error, the session is Complete or Errored.
C13_TerminalOutcome == last.op \in StreamEnds => (Complete \/ Errored)

\* C14: a partial emission leaves the validated question set, the staged
\* files, the title and the view as they were; the quiz view is not shown on
\* the strength of a partial object, even one of 4 fully populated drafts.
C14_PartialLeavesController ==
  [][ last'.op = "onPartial" =>
        /\ UNCHANGED <<questions, files, title>>
        /\ QuizView' = QuizView
    ]_vars

C14_Witness ==
  /\ last.op = "onPartial"
  /\ FourFullDrafts(partialQuestions)
  /\ questions = <<>>
  /\ ~QuizView

\* The full-field test: question, options and answer present and truthy.
PassesFullField(q) ==
  /\ { "question", "options", "answer" } \subseteq DOMAIN q
  /\ q.question # ""
  /\ q.answer # ""

\* The number of elements of the final object that pass it (0 when the
\* object is absent).
PassCount(object) ==
  IF object.defined
  THEN Cardinality({ i \in DOMAIN object.items : PassesFullField(object.items[i]) })
  ELSE 0

\* C15: when a stream finishes, the elements failing the full-field test are
\* dropped without a notification, and the quiz view is shown exactly when 4
\* elements pass.
C15_QuizOnlyOnFourValid ==
  last.op = "onFinish" =>
    /\ Len(questions) = PassCount(last.arg.object)
    /\ \A i \in DOMAIN questions : PassesFullField(questions[i])
    /\ toast = NoToast
    /\ QuizView <=> PassCount(last.arg.object) = 4

C15_Witness ==
  /\ last.op = "onFinish"
  /\ last.arg.object.defined
  /\ Len(last.arg.object.items) = 4
  /\ PassCount(last.arg.object) = 3
  /\ Len(questions) = 3
  /\ ~QuizView

\* The number of truthy slots of the partial object (0 when undefined).
DraftCount(partial) ==
  IF partial.defined
  THEN Cardinality({ i \in DOMAIN partial.items : Boolean(partial.items[i]) })
  ELSE 0

\* C16: while a submission is loading, the label is "Analyzing PDF content"
\* exactly when no draft has been received: the partial object undefined,
\* empty, or holding only falsy slots.
C16_AnalyzingUntilFirstDraft ==
  ProgressVisible =>
    (label(partialQuestions) = "Analyzing PDF content"
       <=> DraftCount(partialQuestions) = 0)

\* C17: on Safari a selection or drop handled while isDragging is set is not
\* accepted: the staged files stay as they were and the picker warning is
\* raised; a picker selection with isDragging unset is accepted by the type
\* and size predicate.
C17_SafariDragSkipsAcceptance ==
  [][ /\ (last'.op \in FileEvents /\ isSafari /\ last'.arg.dragging) =>
           /\ files' = files
           /\ toast' = SafariToast
      /\ (last'.op = "onChange" /\ isSafari /\ ~last'.arg.dragging) =>
           /\ files' = SelectSeq(last'.arg.selection, Acceptable)
           /\ toast' # SafariToast
    ]_vars

C17_Witness ==
  /\ last.op = "onDrop"
  /\ isSafari
  /\ last.arg.dragging
  /\ \E i \in DOMAIN last.arg.selection : Acceptable(last.arg.selection[i])
  /\ files = <<>>
  /\ toast = SafariToast

\* C18: once a submission has handed its payload to the stream consumer, and
\* while its stream is open, no file is staged.
C18_FilesDiscardedOnSubmit ==
  (last.op = "submit" \/ streams # <<>>) => files = <<>>

\* The labels whose question number lies in 1..4.
LabelsInRange ==
  { "Generating question " \o ToString(k) \o " of 4" : k \in 1..4 }

\* C19: whenever the progress indicator is visible, the label is "Analyzing
\* PDF content" or names a question number k with 1 <= k <= 4.
C19_LabelNumberInRange ==
  ProgressVisible =>
    label(partialQuestions) \in LabelsInRange \cup { "Analyzing PDF content" }

====
